---- MODULE Spec2Model ----
(***************************************************************************)
(* Telemetry collector (server.py): the in-memory report store, the expiry *)
(* sweep, the merge aggregation and the three HTTP handlers.               *)
(*                                                                         *)
(* Conventions.  A Python dict is a function whose DOMAIN is its key set.  *)
(* A str is a sequence of one-character strings wherever the code looks    *)
(* inside it (machine ids, the ids query value); other strings are TLA+    *)
(* strings.  Time is in whole seconds; a handler runs at one instant of    *)
(* the clock, the clock advances between requests.  Input quantities are   *)
(* integers; every `usage_percent` of a merged summary is in hundredths of *)
(* a percent (round(x, 2) * 100), the other merged fields are in units.    *)
(***************************************************************************)
EXTENDS Integers, Sequences, FiniteSets, TLC

VARIABLES
    data_store,   \* the dict of server.py:7, as the sequence of its items in insertion order
    now,          \* time.time()
    ticks,        \* how many times the clock has advanced
    last,         \* the most recent event: the request handled and how it ended
    backlog,      \* connections waiting in the listen queue (request-at-a-time view)
    handlers      \* handlers in execution, each with its position (request-at-a-time view)

vars == <<data_store, now, ticks, last, backlog, handlers>>

-----------------------------------------------------------------------------
(* Bounds of the model *)

MaxTicks == 3
MaxBacklog == 2

(* Program constants *)

EXPIRY_WINDOW == 300
FRESH_WINDOW == 30
OFFLINE_THRESHOLD == 30

HOSTNAME_MAP == ("user-ThinkStation-PX" :> "user-ThinkStation-PX1")

MODEL_NAME_MAP == ("NVIDIA RTX 5880 Ada Generation" :> "RTX 4080 Ada")

-----------------------------------------------------------------------------
(* Python values *)

EmptyDict == [x \in {} |-> x]

Get(d, k, default) == IF k \in DOMAIN d THEN d[k] ELSE default

SetItem(d, k, v) == [x \in DOMAIN d \cup {k} |-> IF x = k THEN v ELSE d[x]]

ToSet(s) == {s[i] : i \in 1..Len(s)}

RECURSIVE Sum(_)
Sum(s) == IF s = <<>> THEN 0 ELSE Head(s) + Sum(Tail(s))

RECURSIVE Flatten(_)
Flatten(ss) == IF ss = <<>> THEN <<>> ELSE Head(ss) \o Flatten(Tail(ss))

\* [d.get(k, default) for d in s]
Column(s, k, default) == [i \in 1..Len(s) |-> Get(s[i], k, default)]

\* a split that leaves the value in one piece
SplitWhole(s) == <<s>>

\* str.split(","): the pieces between the commas, empty pieces included
RECURSIVE Split(_)
Split(s) ==
    IF \A i \in 1..Len(s) : s[i] # ","
    THEN <<s>>
    ELSE LET i == CHOOSE j \in 1..Len(s) : s[j] = "," /\ \A h \in 1..(j-1) : s[h] # ","
         IN  <<SubSeq(s, 1, i-1)>> \o Split(SubSeq(s, i+1, Len(s)))

\* round() of the quotient n / d for n >= 0, d > 0: the nearest integer, a tie to the even one
RoundDiv(n, d) ==
    LET q == n \div d
        r == n % d
    IN  IF 2 * r < d THEN q
        ELSE IF 2 * r > d THEN q + 1
        ELSE IF q % 2 = 0 THEN q ELSE q + 1

-----------------------------------------------------------------------------
(* The store *)

Keys(store) == {store[i].k : i \in 1..Len(store)}

Entries(store) == ToSet(store)

Age(e, t) == t - e.timestamp

\* a Put that updates the stored report field by field, keeping what the new one omits
PutUpdate(store, k, report, t) ==
    IF k \in Keys(store)
    THEN [i \in 1..Len(store) |->
            IF store[i].k = k
            THEN [k |-> k, report |-> report @@ store[i].report, timestamp |-> t]
            ELSE store[i]]
    ELSE Append(store, [k |-> k, report |-> report, timestamp |-> t])

\* data_store[machine_id] = {...}: a known key keeps its position, a new one goes last
Put(store, k, report, t) ==
    IF k \in Keys(store)
    THEN [i \in 1..Len(store) |->
            IF store[i].k = k THEN [k |-> k, report |-> report, timestamp |-> t]
            ELSE store[i]]
    ELSE Append(store, [k |-> k, report |-> report, timestamp |-> t])

\* an expiry test that also drops the entry whose age is exactly the window
ExpiredAtWindow(e, t) == Age(e, t) >= EXPIRY_WINDOW

Expired(e, t) == Age(e, t) > EXPIRY_WINDOW

\* a sweep that stops after the first expired entry it deletes
cleanupFirstOnly(store, t) ==
    LET ex == {i \in 1..Len(store) : Expired(store[i], t)}
    IN  IF ex = {} THEN [expired |-> <<>>, store |-> store]
        ELSE LET first == CHOOSE i \in ex : \A j \in ex : i <= j
             IN  [expired |-> <<store[first].k>>,
                  store   |-> SubSeq(store, 1, first - 1) \o SubSeq(store, first + 1, Len(store))]

\* cleanup(): the keys found expired and the store without them
cleanup(store, t) ==
    [expired |-> Column(SelectSeq(store, LAMBDA e : Expired(e, t)), "k", <<>>),
     store   |-> SelectSeq(store, LAMBDA e : ~Expired(e, t))]

-----------------------------------------------------------------------------
(* calculate_merge *)

\* The `ids` argument: None, or the list of strings the query value splits into
None == [some |-> FALSE, val |-> <<>>]

Some(v) == [some |-> TRUE, val |-> v]

\* `if ids:` is true of a non-empty list only
Selected(e, ids) == (ids.some /\ ids.val # <<>>) => e.k \in ToSet(ids.val)

IsFresh(e, t) == Age(e, t) <= FRESH_WINDOW

\* lines 29-39: the reports aggregated, in store order
Fresh(store, ids, t) ==
    Column(SelectSeq(store, LAMBDA e : Selected(e, ids) /\ IsFresh(e, t)),
           "report", EmptyDict)

\* lines 44-57
MergeCpu(filtered) ==
    LET cpus          == Flatten(Column(filtered, "cpus", <<>>))
        total_cores   == Sum(Column(cpus, "cores", 0))
        cpu_usage_sum == Sum([i \in 1..Len(cpus) |->
                                 Get(cpus[i], "usage_percent", 0) * Get(cpus[i], "cores", 0)])
    IN  [cores         |-> total_cores,
         usage_percent |-> IF total_cores > 0
                           THEN RoundDiv(100 * cpu_usage_sum, total_cores) ELSE 0]

\* lines 60-61: i["memory"]["total_gb"] and i["memory"]["used_gb"] raise KeyError
MemoryRaises(filtered) ==
    \E i \in 1..Len(filtered) :
        \/ "memory" \notin DOMAIN filtered[i]
        \/ "total_gb" \notin DOMAIN filtered[i].memory
        \/ "used_gb" \notin DOMAIN filtered[i].memory

\* lines 60-66
MergeMemory(filtered) ==
    LET total_mem == Sum([i \in 1..Len(filtered) |-> filtered[i].memory.total_gb])
        used_mem  == Sum([i \in 1..Len(filtered) |-> filtered[i].memory.used_gb])
    IN  [total_gb      |-> total_mem,
         used_gb       |-> used_mem,
         usage_percent |-> IF total_mem # 0
                           THEN RoundDiv(10000 * used_mem, total_mem) ELSE 0]

AllDisks(filtered) == Flatten(Column(filtered, "disks", <<>>))

\* lines 69-70: d["total_gb"] and d["used_gb"] raise KeyError
DiskRaises(filtered) ==
    \E i \in 1..Len(AllDisks(filtered)) :
        \/ "total_gb" \notin DOMAIN AllDisks(filtered)[i]
        \/ "used_gb" \notin DOMAIN AllDisks(filtered)[i]

\* lines 69-75
MergeDisk(filtered) ==
    LET total_disk == Sum([i \in 1..Len(AllDisks(filtered)) |-> AllDisks(filtered)[i].total_gb])
        used_disk  == Sum([i \in 1..Len(AllDisks(filtered)) |-> AllDisks(filtered)[i].used_gb])
    IN  [total_gb      |-> total_disk,
         used_gb       |-> used_disk,
         usage_percent |-> IF total_disk # 0
                           THEN RoundDiv(10000 * used_disk, total_disk) ELSE 0]

\* lines 78-94
MergeGpu(filtered) ==
    LET gpus      == Flatten(Column(filtered, "gpus", <<>>))
        gpu_count == Len(gpus)
        gpu_usage_percent_sum == Sum(Column(gpus, "usage_percent", 0))
        gpu_mem_total == Sum(Column(gpus, "memory_total_gb", 0))
        gpu_mem_used  == Sum(Column(gpus, "memory_used_gb", 0))
    IN  [memory_total_gb      |-> gpu_mem_total,
         memory_used_gb       |-> gpu_mem_used,
         memory_usage_percent |-> IF gpu_mem_total # 0
                                  THEN RoundDiv(10000 * gpu_mem_used, gpu_mem_total) ELSE 0,
         usage_percent        |-> IF gpu_count # 0
                                  THEN RoundDiv(100 * gpu_usage_percent_sum, gpu_count) ELSE 0]

\* an aggregation without the early return of lines 41-42
AggregateNoSentinel(filtered) ==
    IF MemoryRaises(filtered) \/ DiskRaises(filtered)
    THEN [raised |-> "KeyError", value |-> EmptyDict]
    ELSE [raised |-> "",
          value  |-> [cpus   |-> MergeCpu(filtered),
                      memory |-> MergeMemory(filtered),
                      disk   |-> MergeDisk(filtered),
                      gpus   |-> MergeGpu(filtered)]]

\* lines 41-101 on the reports selected: the value returned, or the exception raised
Aggregate(filtered) ==
    IF filtered = <<>> THEN [raised |-> "", value |-> EmptyDict]
    ELSE IF MemoryRaises(filtered) \/ DiskRaises(filtered)
    THEN [raised |-> "KeyError", value |-> EmptyDict]
    ELSE [raised |-> "",
          value  |-> [cpus   |-> MergeCpu(filtered),
                      memory |-> MergeMemory(filtered),
                      disk   |-> MergeDisk(filtered),
                      gpus   |-> MergeGpu(filtered)]]

calculate_merge(store, ids, t) == Aggregate(Fresh(store, ids, t))

-----------------------------------------------------------------------------
(* RequestHandler: what one request does to the store and how it ends.     *)
(* A handler's outcome is [store, status, body, expired, filtered]: status *)
(* 0 stands for an exception that leaves the handler uncaught, so that no  *)
(* response is written; body is then the exception's name.                 *)

\* `not machine_id`: the key is absent (None) or the string is empty
NoMachineId(obj) == "id" \notin DOMAIN obj \/ obj.id = <<>>

\* a do_POST that sweeps on arrival, before it looks at the body
do_POST_SweepFirst(store, req, t) ==
    LET c == cleanup(store, t)
    IN  IF req.json # "object"
        THEN [store |-> c.store, status |-> 500, body |-> [error |-> "invalid json"],
              expired |-> c.expired, filtered |-> <<>>]
        ELSE IF NoMachineId(req.obj)
        THEN [store |-> c.store, status |-> 400, body |-> [error |-> "missing id"],
              expired |-> c.expired, filtered |-> <<>>]
        ELSE [store |-> Put(c.store, req.obj.id, req.obj, t), status |-> 200,
              body |-> [status |-> "ok"], expired |-> c.expired, filtered |-> <<>>]

\* do_POST on /report, lines 119-136; req.json tells what json.loads makes of the body
do_POST(store, req, t) ==
    IF req.json # "object"
    THEN \* json.loads raises, or report.get does on a value that is no dict
         [store |-> store, status |-> 500, body |-> [error |-> "invalid json"],
          expired |-> <<>>, filtered |-> <<>>]
    ELSE IF NoMachineId(req.obj)
    THEN [store |-> store, status |-> 400, body |-> [error |-> "missing id"],
          expired |-> <<>>, filtered |-> <<>>]
    ELSE LET c == cleanup(Put(store, req.obj.id, req.obj, t), t)
         IN  [store |-> c.store, status |-> 200, body |-> [status |-> "ok"],
              expired |-> c.expired, filtered |-> <<>>]

\* a remap that builds a fresh display record holding the names only
RemapGpuNamesOnly(gpu) ==
    IF "model" \in DOMAIN gpu /\ gpu.model \in DOMAIN MODEL_NAME_MAP
    THEN [old_model |-> gpu.model, model |-> MODEL_NAME_MAP[gpu.model]]
    ELSE gpu

\* a remap without the table test: every pass moves `model` to `old_model`
RemapGpuAlways(gpu) ==
    IF "model" \in DOMAIN gpu
    THEN SetItem(SetItem(gpu, "old_model", gpu.model),
                 "model", Get(MODEL_NAME_MAP, gpu.model, gpu.model))
    ELSE gpu

\* lines 153-157 on one GPU record
RemapGpu(gpu) ==
    IF "model" \in DOMAIN gpu /\ gpu.model \in DOMAIN MODEL_NAME_MAP
    THEN SetItem(SetItem(gpu, "old_model", gpu.model), "model", MODEL_NAME_MAP[gpu.model])
    ELSE gpu

\* lines 153-157 seen from the store: item is a shallow copy, so item["gpus"] is the
\* stored list and the GPU records written to are the stored ones
TouchStored(report) ==
    IF "gpus" \in DOMAIN report
    THEN [report EXCEPT !.gpus = [i \in 1..Len(@) |-> RemapGpu(@[i])]]
    ELSE report

\* a listing that overwrites the hostname without keeping the stored one
ListItemNoOldHostname(e, t) ==
    LET item0 == SetItem(e.report, "offline", Age(e, t) > OFFLINE_THRESHOLD)
        item1 == IF item0.hostname \in DOMAIN HOSTNAME_MAP
                 THEN SetItem(item0, "hostname", HOSTNAME_MAP[item0.hostname])
                 ELSE item0
    IN  TouchStored(item1)

\* lines 148-158: the item appended to the result
ListItem(e, t) ==
    LET item0 == SetItem(e.report, "offline", Age(e, t) > OFFLINE_THRESHOLD)
        item1 == IF item0.hostname \in DOMAIN HOSTNAME_MAP
                 THEN SetItem(SetItem(item0, "old_hostname", item0.hostname),
                              "hostname", HOSTNAME_MAP[item0.hostname])
                 ELSE item0
    IN  TouchStored(item1)

\* line 150: item["hostname"] raises KeyError
HostnameRaises(e) == "hostname" \notin DOMAIN e.report

\* do_GET on /all, lines 143-159
do_GET_all(store, t) ==
    LET c    == cleanup(store, t)
        s    == c.store
        bad  == {i \in 1..Len(s) : HostnameRaises(s[i])}
        stop == IF bad = {} THEN Len(s) + 1
                ELSE CHOOSE i \in bad : \A j \in bad : i <= j
    IN  [store    |-> [i \in 1..Len(s) |->
                          IF i < stop THEN [s[i] EXCEPT !.report = TouchStored(@)]
                          ELSE s[i]],
         status   |-> IF bad = {} THEN 200 ELSE 0,
         body     |-> IF bad = {} THEN [i \in 1..Len(s) |-> ListItem(s[i], t)]
                      ELSE <<"KeyError">>,
         expired  |-> c.expired,
         filtered |-> <<>>]

\* lines 163-166: params.get("ids") is None or the list of the parameter's values
QueryIds(params_ids) ==
    IF params_ids # <<>> THEN Some(Split(params_ids[1])) ELSE None

\* do_GET on /merge, lines 161-168
do_GET_merge(store, params_ids, t) ==
    LET c        == cleanup(store, t)
        filtered == Fresh(c.store, QueryIds(params_ids), t)
        r        == Aggregate(filtered)
    IN  [store    |-> c.store,
         status   |-> IF r.raised = "" THEN 200 ELSE 0,
         body     |-> IF r.raised = "" THEN r.value ELSE <<r.raised>>,
         expired  |-> c.expired,
         filtered |-> filtered]

-----------------------------------------------------------------------------
(* Inputs *)

FullLegacy ==
    [hostname |-> "user-ThinkStation-PX",
     cpus     |-> <<[cores |-> 4, usage_percent |-> 50]>>,
     memory   |-> [total_gb |-> 16, used_gb |-> 4],
     disks    |-> <<[total_gb |-> 100, used_gb |-> 25]>>,
     gpus     |-> <<[model |-> "NVIDIA RTX 5880 Ada Generation", usage_percent |-> 10,
                     memory_total_gb |-> 48, memory_used_gb |-> 12]>>]

\* a hostname outside HOSTNAME_MAP with one GPU model outside and one inside MODEL_NAME_MAP
FullPlain ==
    [hostname |-> "node2",
     cpus     |-> <<[cores |-> 4, usage_percent |-> 100]>>,
     memory   |-> [total_gb |-> 32, used_gb |-> 16],
     disks    |-> <<[total_gb |-> 200, used_gb |-> 20]>>,
     gpus     |-> <<[model |-> "A100", usage_percent |-> 20,
                     memory_total_gb |-> 80, memory_used_gb |-> 40],
                    [model |-> "NVIDIA RTX 5880 Ada Generation", usage_percent |-> 90,
                     memory_total_gb |-> 48, memory_used_gb |-> 24]>>]

\* omits hostname, disks and gpus
NoHostname ==
    [cpus   |-> <<[cores |-> 8, usage_percent |-> 25]>>,
     memory |-> [total_gb |-> 8, used_gb |-> 2]]

\* omits memory, disks and gpus
NoMemory ==
    [hostname |-> "node3",
     cpus     |-> <<[cores |-> 2, usage_percent |-> 10]>>]

\* what each agent may report; ids are JSON strings
Reports ==
    {("id" :> <<"a">>) @@ sh : sh \in {FullLegacy, NoMemory}}
    \cup {("id" :> <<"b">>) @@ sh : sh \in {FullPlain, NoHostname}}

MachineIds == {r.id : r \in Reports}

PostBodies ==
    {[json |-> "malformed", obj |-> EmptyDict], [json |-> "array", obj |-> EmptyDict],
     [json |-> "object", obj |-> FullPlain],
     [json |-> "object", obj |-> ("id" :> <<>>) @@ FullPlain]}
    \cup {[json |-> "object", obj |-> r] : r \in Reports}

\* the values of the `ids` query parameter, in the order given; parse_qs drops a
\* blank value, so `ids=` arrives like no parameter at all: <<>>
IdsParams ==
    {<<>>, << <<"a">> >>, << <<"a", ",", "b">> >>, << <<"b", ",", "c">> >>, << <<",">> >>}

TickSteps == {1, 30, 270}

-----------------------------------------------------------------------------
(* The service as a state machine, one request handled per step *)

Event(op, arg, r) ==
    [op |-> op, arg |-> arg, status |-> r.status, body |-> r.body,
     expired |-> r.expired, filtered |-> r.filtered, replaced |-> <<>>]

NoOutcome == [status |-> 0, body |-> <<>>, expired |-> <<>>, filtered |-> <<>>]

Init ==
    /\ data_store = <<>>
    /\ now = 0
    /\ ticks = 0
    /\ last = Event("init", <<>>, NoOutcome)
    /\ backlog = <<>>
    /\ handlers = <<>>

Tick(d) ==
    /\ ticks < MaxTicks
    /\ now' = now + d
    /\ ticks' = ticks + 1
    /\ last' = Event("tick", <<>>, NoOutcome)
    /\ UNCHANGED <<data_store, backlog, handlers>>

Ingest(req) ==
    LET r == do_POST(data_store, req, now)
    IN  /\ data_store' = r.store
        /\ last' = [Event("ingest", req, r) EXCEPT
                        \* for the record: the entry this request overwrote, if any
                        !.replaced = IF r.status = 200
                                     THEN SelectSeq(data_store, LAMBDA e : e.k = req.obj.id)
                                     ELSE <<>>]
        /\ UNCHANGED <<now, ticks, backlog, handlers>>

ListAll ==
    LET r == do_GET_all(data_store, now)
    IN  /\ data_store' = r.store
        /\ last' = Event("list", <<>>, r)
        /\ UNCHANGED <<now, ticks, backlog, handlers>>

Merge(params_ids) ==
    LET r == do_GET_merge(data_store, params_ids, now)
    IN  /\ data_store' = r.store
        /\ last' = Event("merge", params_ids, r)
        /\ UNCHANGED <<now, ticks, backlog, handlers>>

\* lines 138 and 170: any other path
NotFound ==
    /\ last' = Event("notfound", <<>>,
                     [status |-> 404, body |-> [error |-> "Not found"],
                      expired |-> <<>>, filtered |-> <<>>])
    /\ UNCHANGED <<data_store, now, ticks, backlog, handlers>>

Next ==
    \/ \E d \in TickSteps : Tick(d)
    \/ \E req \in PostBodies : Ingest(req)
    \/ ListAll
    \/ \E q \in IdsParams : Merge(q)
    \/ NotFound

Spec == Init /\ [][Next]_vars

-----------------------------------------------------------------------------
(* The server loop, one handler step at a time.  Connections arrive at any  *)
(* moment and wait in the listen queue; serve_forever of HTTPServer accepts *)
(* one, runs its handler to the end on the same thread, and only then       *)
(* accepts the next.  A handler walks through its store operations: the Put *)
(* (one dict assignment), the sweep (a scan of the dict, then one del per   *)
(* expired key), the iteration of List or Fresh (one entry per step), and   *)
(* finally the write of the response.                                       *)

ServeRequests ==
    {[path |-> "/report", obj |-> ("id" :> <<"a">>) @@ FullLegacy, ids |-> <<>>],
     [path |-> "/report", obj |-> ("id" :> <<"b">>) @@ NoHostname, ids |-> <<>>],
     [path |-> "/all", obj |-> EmptyDict, ids |-> <<>>],
     [path |-> "/merge", obj |-> EmptyDict, ids |-> <<>>]}

\* the position a handler starts from
Started(req) ==
    [req |-> req, pc |-> IF req.path = "/report" THEN "put" ELSE "sweep_scan",
     it |-> 1, expired |-> <<>>, out |-> <<>>, status |-> 0, torn |-> FALSE]

\* a server that hands every connection to a thread of its own
ServerIdleThreaded == Len(handlers) < MaxBacklog

\* lines 178-180: HTTPServer.serve_forever takes the next connection only when the
\* handler of the previous one has returned
ServerIdle == handlers = <<>>

\* a handler that has begun a store operation and not yet left the last one
InStoreOperation(h) == h.pc # "send"

\* a handler between the first and the last entry of an iteration of the dict
Iterating(h) == h.pc \in {"sweep_scan", "list", "fresh"} /\ h.it > 1

\* handler i has changed the dict: what every other handler's iteration suffers
Disturb(i, hs) ==
    [j \in 1..Len(hs) |->
        IF j # i /\ Iterating(hs[j]) THEN [hs[j] EXCEPT !.torn = TRUE] ELSE hs[j]]

ServeInit ==
    /\ data_store = <<>>
    /\ now = 0
    /\ ticks = 0
    /\ last = Event("init", <<>>, NoOutcome)
    /\ backlog = <<>>
    /\ handlers = <<>>

ServeTick ==
    /\ ticks < MaxTicks
    /\ now' = now + EXPIRY_WINDOW + 1
    /\ ticks' = ticks + 1
    /\ UNCHANGED <<data_store, last, backlog, handlers>>

Arrive(req) ==
    /\ Len(backlog) < MaxBacklog
    /\ backlog' = Append(backlog, req)
    /\ UNCHANGED <<data_store, now, ticks, last, handlers>>

Accept ==
    /\ backlog # <<>>
    /\ ServerIdle
    /\ handlers' = Append(handlers, Started(Head(backlog)))
    /\ backlog' = Tail(backlog)
    /\ UNCHANGED <<data_store, now, ticks, last>>

\* lines 129-132
StepPut(i) ==
    LET h == handlers[i]
    IN  /\ h.pc = "put"
        /\ data_store' = Put(data_store, h.req.obj.id, h.req.obj, now)
        /\ handlers' = Disturb(i, [handlers EXCEPT ![i].pc = "sweep_scan", ![i].it = 1])
        /\ UNCHANGED <<now, ticks, last, backlog>>

\* line 21, one entry of the dict per step
StepSweepScan(i) ==
    LET h == handlers[i]
    IN  /\ h.pc = "sweep_scan"
        /\ IF h.it <= Len(data_store)
           THEN handlers' = [handlers EXCEPT
                    ![i].it = h.it + 1,
                    ![i].expired = IF Expired(data_store[h.it], now)
                                   THEN Append(h.expired, data_store[h.it].k)
                                   ELSE h.expired]
           ELSE handlers' = [handlers EXCEPT ![i].pc = "sweep_del"]
        /\ UNCHANGED <<data_store, now, ticks, last, backlog>>

\* lines 22-23, one del per step, then on to what follows cleanup() in the handler
StepSweepDel(i) ==
    LET h == handlers[i]
    IN  /\ h.pc = "sweep_del"
        /\ IF h.expired # <<>>
           THEN /\ data_store' = SelectSeq(data_store, LAMBDA e : e.k # Head(h.expired))
                /\ handlers' = Disturb(i, [handlers EXCEPT ![i].expired = Tail(h.expired)])
           ELSE /\ data_store' = data_store
                /\ handlers' = [handlers EXCEPT
                       ![i].it = 1,
                       ![i].status = IF h.req.path = "/report" THEN 200 ELSE 0,
                       ![i].out = IF h.req.path = "/report" THEN <<[status |-> "ok"]>> ELSE <<>>,
                       ![i].pc = CASE h.req.path = "/report" -> "send"
                                   [] h.req.path = "/all"    -> "list"
                                   [] OTHER                  -> "fresh"]
        /\ UNCHANGED <<now, ticks, last, backlog>>

\* lines 147-158, one entry per step
StepList(i) ==
    LET h == handlers[i]
    IN  /\ h.pc = "list"
        /\ IF h.it > Len(data_store)
           THEN /\ handlers' = [handlers EXCEPT ![i].pc = "send", ![i].status = 200]
                /\ data_store' = data_store
           ELSE IF HostnameRaises(data_store[h.it])
           THEN /\ handlers' = [handlers EXCEPT ![i].pc = "send", ![i].status = 0,
                                                ![i].out = <<"KeyError">>]
                /\ data_store' = data_store
           ELSE /\ handlers' = [handlers EXCEPT
                       ![i].it = h.it + 1,
                       ![i].out = Append(h.out, ListItem(data_store[h.it], now))]
                /\ data_store' = [data_store EXCEPT ![h.it].report = TouchStored(@)]
        /\ UNCHANGED <<now, ticks, last, backlog>>

\* lines 33-39 one entry per step, then lines 41-101 and the return
StepFresh(i) ==
    LET h == handlers[i]
    IN  /\ h.pc = "fresh"
        /\ IF h.it <= Len(data_store)
           THEN handlers' = [handlers EXCEPT
                    ![i].it = h.it + 1,
                    ![i].out = IF /\ Selected(data_store[h.it], QueryIds(h.req.ids))
                                  /\ IsFresh(data_store[h.it], now)
                               THEN Append(h.out, data_store[h.it].report)
                               ELSE h.out]
           ELSE handlers' = [handlers EXCEPT
                    ![i].pc = "send",
                    ![i].status = IF Aggregate(h.out).raised = "" THEN 200 ELSE 0,
                    ![i].out = <<Aggregate(h.out)>>]
        /\ UNCHANGED <<data_store, now, ticks, last, backlog>>

\* the response is written (or the exception reported) and the handler returns
Finish(i) ==
    /\ handlers[i].pc = "send"
    /\ handlers' = [j \in 1..(Len(handlers) - 1) |->
                       IF j < i THEN handlers[j] ELSE handlers[j + 1]]
    /\ UNCHANGED <<data_store, now, ticks, last, backlog>>

ServeNext ==
    \/ ServeTick
    \/ \E req \in ServeRequests : Arrive(req)
    \/ Accept
    \/ \E i \in 1..Len(handlers) : StepPut(i)
    \/ \E i \in 1..Len(handlers) : StepSweepScan(i)
    \/ \E i \in 1..Len(handlers) : StepSweepDel(i)
    \/ \E i \in 1..Len(handlers) : StepList(i)
    \/ \E i \in 1..Len(handlers) : StepFresh(i)
    \/ \E i \in 1..Len(handlers) : Finish(i)

SpecServe == ServeInit /\ [][ServeNext]_vars

-----------------------------------------------------------------------------
(* Properties *)

IsRequest == last.op \in {"ingest", "list", "merge", "notfound"}

Listed(e) ==
    \E i \in 1..Len(last.body) :
        last.body[i].id = e.k /\ last.body[i].offline = (now - e.timestamp > 30)

\* C1: freshness partitioning.  After a ListAll every entry of age <= 300 is in
\* the returned list, with offline = (age > 30), and nothing older than 300 is
\* stored or listed; after an unfiltered Merge the reports aggregated are exactly
\* those of the entries of age <= 30.
C1_FreshnessPartition ==
    /\ last.op = "list" =>
          /\ \A e \in Entries(data_store) : now - e.timestamp <= 300
          /\ last.status = 200
          /\ Len(last.body) = Len(data_store)
          /\ \A e \in Entries(data_store) : Listed(e)
    /\ (last.op = "merge" /\ last.arg = <<>>) =>
          /\ \A e \in Entries(data_store) : now - e.timestamp <= 300
          /\ \A e \in Entries(data_store) :
                (now - e.timestamp <= 30) <=> (e.report \in ToSet(last.filtered))

UniqueKeys == \A i, j \in 1..Len(data_store) : data_store[i].k = data_store[j].k => i = j

IngestAccepted == last'.op = "ingest" /\ last'.status = 200

\* C2: last write wins.  The store never holds two entries for one id, and an
\* accepted Ingest leaves under its id exactly the payload received and the time of
\* receipt, every other entry being one that was there before, untouched.
C2_LastWriteWins ==
    /\ []UniqueKeys
    /\ [][IngestAccepted =>
            LET p == last'.arg.obj
            IN  /\ \E i \in 1..Len(data_store') :
                      data_store'[i] = [k |-> p.id, report |-> p, timestamp |-> now']
                /\ \A i \in 1..Len(data_store') :
                      data_store'[i].k # p.id => data_store'[i] \in Entries(data_store)]_vars

\* an Ingest has replaced an older entry of the same id that held another report
C2_Witness ==
    /\ last.op = "ingest" /\ last.status = 200
    /\ last.replaced # <<>>
    /\ last.replaced[1].report # last.arg.obj
    /\ last.replaced[1].timestamp < now
    /\ Len(data_store) = 2

\* C3: every request ends with a structured response, whatever reports were
\* accepted before it.
C3_EveryRequestAnswered == IsRequest => last.status \in {200, 400, 404, 500}

ContributedMemory(r) == IF "memory" \in DOMAIN r THEN Get(r.memory, "total_gb", 0) ELSE 0

ContributedCores(r) ==
    IF "cpus" \in DOMAIN r THEN Sum([i \in 1..Len(r.cpus) |-> Get(r.cpus[i], "cores", 0)]) ELSE 0

ContributedDisk(r) ==
    IF "disks" \in DOMAIN r THEN Sum([i \in 1..Len(r.disks) |-> Get(r.disks[i], "total_gb", 0)]) ELSE 0

ContributedGpuMemory(r) ==
    IF "gpus" \in DOMAIN r
    THEN Sum([i \in 1..Len(r.gpus) |-> Get(r.gpus[i], "memory_total_gb", 0)]) ELSE 0

\* C4: a Merge over a non-empty set of fresh reports returns a summary, never an
\* error, and a section a report omits adds 0 to the totals.
C4_MissingSectionIsEmpty ==
    (last.op = "merge" /\ last.filtered # <<>>) =>
        /\ last.status = 200
        /\ last.body.cpus.cores = Sum([i \in 1..Len(last.filtered) |-> ContributedCores(last.filtered[i])])
        /\ last.body.memory.total_gb = Sum([i \in 1..Len(last.filtered) |-> ContributedMemory(last.filtered[i])])
        /\ last.body.disk.total_gb = Sum([i \in 1..Len(last.filtered) |-> ContributedDisk(last.filtered[i])])
        /\ last.body.gpus.memory_total_gb = Sum([i \in 1..Len(last.filtered) |-> ContributedGpuMemory(last.filtered[i])])

\* C5: a ListAll leaves every entry that is not expired exactly as it was stored.
C5_ListDoesNotMutate ==
    [][last'.op = "list" =>
          \A e \in Entries(data_store) :
              now - e.timestamp <= 300 => e \in Entries(data_store')]_vars

\* k is one of the comma-separated names of s
NamedIn(k, s) ==
    /\ \A i \in 1..Len(k) : k[i] # ","
    /\ \E from \in 1..(Len(s) + 1) :
          LET to == from + Len(k) - 1
          IN  /\ to <= Len(s)
              /\ from = 1 \/ s[from - 1] = ","
              /\ to = Len(s) \/ s[to + 1] = ","
              /\ \A i \in 1..Len(k) : s[from + i - 1] = k[i]

MergeAnswer(store, q, t) == calculate_merge(cleanup(store, t).store, QueryIds(q), t)

SameAnswer(x, y) == x.raised = y.raised /\ (x.raised = "" => x.value = y.value)

\* C6: remapping never influences aggregation.  Whatever a ListAll does, the answer
\* of a Merge at that time is the same after it as before it, for every filter; and
\* a filtered Merge aggregates only reports whose raw id the filter holds.
C6_RemapInvisibleToMerge ==
    /\ [][last'.op = "list" =>
            \A q \in IdsParams :
                SameAnswer(MergeAnswer(data_store', q, now'), MergeAnswer(data_store, q, now))]_vars
    /\ [](last.op = "merge" /\ last.arg # <<>> =>
            \A i \in 1..Len(last.filtered) : NamedIn(last.filtered[i].id, last.arg[1]))

\* a Merge answered from a report whose stored GPU record a ListAll has remapped
C6_Witness ==
    /\ last.op = "merge" /\ last.status = 200
    /\ \E i \in 1..Len(last.filtered) :
          /\ "gpus" \in DOMAIN last.filtered[i]
          /\ \E g \in 1..Len(last.filtered[i].gpus) :
                "old_model" \in DOMAIN last.filtered[i].gpus[g]
    /\ last.body.gpus.usage_percent > 0

\* C7: a rejected Ingest leaves the store unchanged.  No id or an empty id is
\* answered 400 "missing id", a body that does not parse 500 "invalid json", and
\* neither adds, replaces, removes or re-stamps an entry.
C7_RejectedIngestNoEffect ==
    [][last'.op = "ingest" =>
          /\ (last'.arg.json = "object" /\ ("id" \notin DOMAIN last'.arg.obj \/ last'.arg.obj.id = <<>>))
                => (last'.status = 400 /\ last'.body = [error |-> "missing id"])
          /\ last'.arg.json = "malformed"
                => (last'.status = 500 /\ last'.body = [error |-> "invalid json"])
          /\ last'.status # 200 => data_store' = data_store]_vars

\* an Ingest was rejected while the store held an entry a sweep would have removed
C7_Witness ==
    /\ last.op = "ingest" /\ last.status = 400
    /\ \E e \in Entries(data_store) : now - e.timestamp > 300

\* C8: the sweep removes exactly the entries older than 300 s.  After the sweep of
\* a Merge no entry of age > 300 remains and every entry of age <= 300 is kept as it
\* was, in its place.
C8_SweepExact ==
    [][last'.op = "merge" =>
          /\ \A e \in Entries(data_store') : now' - e.timestamp <= 300
          /\ \A e \in Entries(data_store) : now' - e.timestamp <= 300 => e \in Entries(data_store')
          /\ Entries(data_store') \subseteq Entries(data_store)
          /\ Len(last'.expired) + Len(data_store') = Len(data_store)]_vars

\* a sweep has removed an entry and kept one whose age is exactly 300
C8_Witness ==
    /\ last.op = "merge" /\ last.expired # <<>>
    /\ \E e \in Entries(data_store) : now - e.timestamp = 300

\* C10: a filtered Merge aggregates exactly the stored entries of age <= 30 whose
\* id is one of the comma-separated names of the filter, an unfiltered Merge every
\* entry of age <= 30; a name that is no stored id changes nothing.
C10_FilteredMergeInput ==
    /\ last.op = "merge" =>
          LET named == SelectSeq(data_store, LAMBDA e :
                           /\ now - e.timestamp <= 30
                           /\ last.arg = <<>> \/ NamedIn(e.k, last.arg[1]))
          IN  last.filtered = [i \in 1..Len(named) |-> named[i].report]
    /\ SameAnswer(MergeAnswer(data_store, << <<"b", ",", "c">> >>, now),
                  MergeAnswer(data_store, << <<"b">> >>, now))

\* a filter naming a stored id and an unknown one has selected the one fresh entry
\* it names and left out another fresh entry
C10_Witness ==
    /\ last.op = "merge" /\ last.arg = << <<"b", ",", "c">> >>
    /\ Len(last.filtered) = 1
    /\ \E e \in Entries(data_store) : e.k = <<"a">> /\ now - e.timestamp <= 30

\* C9: store operations are mutually exclusive.  With requests arriving at any
\* time, at most one handler is inside a store operation, and no iteration of the
\* store (the scan of the sweep, List, Fresh) has the store changed under it by the
\* Put or the sweep of another handler.
C9_MutualExclusion ==
    /\ \A i, j \in 1..Len(handlers) :
          (InStoreOperation(handlers[i]) /\ InStoreOperation(handlers[j])) => i = j
    /\ \A i \in 1..Len(handlers) : ~handlers[i].torn

\* a List is between two entries while another request waits in the listen queue
C9_Witness ==
    /\ \E i \in 1..Len(handlers) : handlers[i].pc = "list" /\ handlers[i].it = 2
    /\ Len(data_store) = 2
    /\ \E j \in 1..Len(backlog) : backlog[j].path = "/report"

\* an entry the Merge just answered had to aggregate: of age <= 30 and, under a
\* filter, named by it
Qualifies(e) ==
    /\ now - e.timestamp <= 30
    /\ last.arg = <<>> \/ NamedIn(e.k, last.arg[1])

\* C11: empty aggregation.  A Merge for which no stored entry qualifies (the store
\* is empty, every entry is older than 30 s, or the filter names no fresh entry) is
\* answered 200 with the empty object.
C11_EmptyAggregation ==
    (last.op = "merge" /\ \A e \in Entries(data_store) : ~Qualifies(e)) =>
        /\ last.status = 200
        /\ DOMAIN last.body = {}

\* a filtered Merge answered with the empty object while the store holds a fresh
\* entry the filter does not name and the entry it names is older than 30 s
C11_Witness ==
    /\ last.op = "merge" /\ last.arg = << <<"a">> >>
    /\ last.status = 200 /\ DOMAIN last.body = {}
    /\ \E e \in Entries(data_store) : e.k = <<"a">> /\ now - e.timestamp > 30
    /\ \E e \in Entries(data_store) : e.k = <<"b">> /\ now - e.timestamp <= 30

MergedSomething == last.op = "merge" /\ last.filtered # <<>>

\* v is the quotient n / d rounded to the nearest unit
Nearest(v, n, d) == 2 * (v * d - n) <= d /\ 2 * (n - v * d) <= d

CpuEntries(reports) ==
    Flatten([i \in 1..Len(reports) |->
                IF "cpus" \in DOMAIN reports[i] THEN reports[i].cpus ELSE <<>>])

GpuEntries(reports) ==
    Flatten([i \in 1..Len(reports) |->
                IF "gpus" \in DOMAIN reports[i] THEN reports[i].gpus ELSE <<>>])

DiskEntries(reports) ==
    Flatten([i \in 1..Len(reports) |->
                IF "disks" \in DOMAIN reports[i] THEN reports[i].disks ELSE <<>>])

TotalCores(reports) ==
    Sum([i \in 1..Len(CpuEntries(reports)) |-> Get(CpuEntries(reports)[i], "cores", 0)])

WeightedUsage(reports) ==
    Sum([i \in 1..Len(CpuEntries(reports)) |->
            Get(CpuEntries(reports)[i], "usage_percent", 0)
                * Get(CpuEntries(reports)[i], "cores", 0)])

\* C12: merged CPU is a core-weighted average.  A Merge over a non-empty set of
\* fresh reports returns cores = the sum of cores over every CPU entry and
\* usage_percent = sum(usage_percent * cores) / sum(cores), to two decimals.
C12_CpuWeightedAverage ==
    MergedSomething =>
        /\ last.status = 200
        /\ last.body.cpus.cores = TotalCores(last.filtered)
        /\ TotalCores(last.filtered) > 0 =>
              Nearest(last.body.cpus.usage_percent,
                      100 * WeightedUsage(last.filtered), TotalCores(last.filtered))

GpuUsageSum(reports) ==
    Sum([i \in 1..Len(GpuEntries(reports)) |-> Get(GpuEntries(reports)[i], "usage_percent", 0)])

\* the reports with every GPU's memory figures replaced
OtherGpuMemory(reports) ==
    [i \in 1..Len(reports) |->
        IF "gpus" \in DOMAIN reports[i]
        THEN [reports[i] EXCEPT !.gpus =
                 [g \in 1..Len(@) |-> SetItem(SetItem(@[g], "memory_total_gb", 1),
                                              "memory_used_gb", 1)]]
        ELSE reports[i]]

\* C13: merged GPU usage is the unweighted mean.  A Merge over a non-empty set of
\* fresh reports returns usage_percent = the sum of usage_percent over every GPU
\* entry divided by the number of GPU entries, to two decimals, whatever the GPUs'
\* memory figures.
C13_GpuUnweightedMean ==
    MergedSomething =>
        /\ last.status = 200
        /\ GpuEntries(last.filtered) # <<>> =>
              Nearest(last.body.gpus.usage_percent,
                      100 * GpuUsageSum(last.filtered), Len(GpuEntries(last.filtered)))
        /\ MergeGpu(OtherGpuMemory(last.filtered)).usage_percent = last.body.gpus.usage_percent

TotalMemory(reports) ==
    Sum([i \in 1..Len(reports) |->
            IF "memory" \in DOMAIN reports[i] THEN Get(reports[i].memory, "total_gb", 0) ELSE 0])

TotalDisk(reports) ==
    Sum([i \in 1..Len(DiskEntries(reports)) |-> Get(DiskEntries(reports)[i], "total_gb", 0)])

TotalGpuMemory(reports) ==
    Sum([i \in 1..Len(GpuEntries(reports)) |-> Get(GpuEntries(reports)[i], "memory_total_gb", 0)])

\* C14: zero guard.  A Merge over a non-empty set of fresh reports returns a
\* summary in which a usage percentage is 0 whenever its denominator is 0: total
\* cores, total memory, total disk, the number of GPUs, total GPU memory.
C14_ZeroGuard ==
    MergedSomething =>
        /\ last.status = 200
        /\ TotalCores(last.filtered) = 0 => last.body.cpus.usage_percent = 0
        /\ TotalMemory(last.filtered) = 0 => last.body.memory.usage_percent = 0
        /\ TotalDisk(last.filtered) = 0 => last.body.disk.usage_percent = 0
        /\ GpuEntries(last.filtered) = <<>> => last.body.gpus.usage_percent = 0
        /\ TotalGpuMemory(last.filtered) = 0 => last.body.gpus.memory_usage_percent = 0

Answered(ans) == ans.raised = ""

CoresOf(ans) == IF DOMAIN ans.value = {} THEN 0 ELSE ans.value.cpus.cores

\* C15: Merge is additive over disjoint filters.  With every entry inside the 30 s
\* window, the core totals of Merge over "a" and of Merge over "b" add up to the
\* core total of Merge over "a,b", an empty summary counting as 0.
C15_AdditiveOverDisjointFilters ==
    (\A e \in Entries(data_store) : now - e.timestamp <= 30) =>
        LET A  == MergeAnswer(data_store, << <<"a">> >>, now)
            B  == MergeAnswer(data_store, << <<"b">> >>, now)
            AB == MergeAnswer(data_store, << <<"a", ",", "b">> >>, now)
        IN  /\ Answered(A) /\ Answered(B) /\ Answered(AB)
            /\ CoresOf(A) + CoresOf(B) = CoresOf(AB)

\* the entries a listing at this instant goes through: those the sweep keeps
Surviving == cleanup(data_store, now).store

ListedNow == last'.op = "list" /\ last'.status = 200

LegacyHost(e) == e.report.hostname \in DOMAIN HOSTNAME_MAP

\* the report with `offline` set to the value the item carries
WithOffline(report, item) == SetItem(report, "offline", item.offline)

\* C16 as stated: remap transparency.  Every listed entry whose stored hostname is
\* a key of the legacy table carries the canonical hostname and old_hostname = the
\* stored one; every other listed entry equals the report stored when the request
\* arrived plus the offline flag, with no old_hostname added.
C16_RemapTransparency_Original ==
    [][ListedNow =>
          /\ Len(last'.body) = Len(Surviving)
          /\ \A i \in 1..Len(Surviving) :
                LET e == Surviving[i]  item == last'.body[i]
                IN  IF LegacyHost(e)
                    THEN /\ item.hostname = HOSTNAME_MAP[e.report.hostname]
                         /\ "old_hostname" \in DOMAIN item
                         /\ item.old_hostname = e.report.hostname
                    ELSE item = WithOffline(e.report, item)]_vars

\* the stored GPU record as a listing shows it
ShownGpu(gpu) ==
    IF "model" \in DOMAIN gpu /\ gpu.model \in DOMAIN MODEL_NAME_MAP
    THEN ("old_model" :> gpu.model) @@ ("model" :> MODEL_NAME_MAP[gpu.model]) @@ gpu
    ELSE gpu

ShownGpus(report) ==
    IF "gpus" \in DOMAIN report
    THEN [report EXCEPT !.gpus = [g \in 1..Len(@) |-> ShownGpu(@[g])]]
    ELSE report

\* C16: remap transparency.  Every listed entry whose stored hostname is a key of
\* the legacy table carries the canonical hostname and old_hostname = the stored
\* one; every other listed entry equals the report stored when the request arrived
\* plus the offline flag, except that a GPU whose model is a key of the model table
\* is shown under the canonical model with old_model = the stored one; no
\* old_hostname is added.
C16_RemapTransparency ==
    [][ListedNow =>
          /\ Len(last'.body) = Len(Surviving)
          /\ \A i \in 1..Len(Surviving) :
                LET e == Surviving[i]  item == last'.body[i]
                IN  IF LegacyHost(e)
                    THEN /\ item.hostname = HOSTNAME_MAP[e.report.hostname]
                         /\ "old_hostname" \in DOMAIN item
                         /\ item.old_hostname = e.report.hostname
                    ELSE /\ item = WithOffline(ShownGpus(e.report), item)
                         /\ "old_hostname" \notin DOMAIN item]_vars

\* a listing has shown a legacy-named host next to a host outside the table whose
\* GPU model was translated
C16_Witness ==
    /\ last.op = "list" /\ last.status = 200
    /\ \E i \in 1..Len(last.body) : "old_hostname" \in DOMAIN last.body[i]
    /\ \E i \in 1..Len(last.body) :
          /\ "old_hostname" \notin DOMAIN last.body[i]
          /\ \E g \in 1..Len(last.body[i].gpus) : "old_model" \in DOMAIN last.body[i].gpus[g]

\* C17: the sweep is idempotent.  Sweeping the store twice at one time leaves what
\* sweeping it once leaves, the second pass finding nothing expired; and sweeping a
\* store with no entry older than 300 s changes nothing.
C17_SweepIdempotent ==
    LET once  == cleanup(data_store, now)
        twice == cleanup(once.store, now)
    IN  /\ twice.store = once.store
        /\ twice.expired = <<>>
        /\ (\A e \in Entries(data_store) : now - e.timestamp <= 300) =>
              once.store = data_store /\ once.expired = <<>>

\* a store holding two entries older than 300 s, not swept yet
C17_Witness ==
    /\ Len(cleanup(data_store, now).expired) = 2
    /\ last.op \in {"tick", "notfound", "ingest"}

Overdue(e) == now - e.timestamp > 300

\* the request handled by this step was an Ingest, ListAll or Merge answered with 200
SucceededNow == last'.op \in {"ingest", "list", "merge"} /\ last'.status = 200

JustIngested == last.op = "ingest" /\ last.status = 200

WithoutIngest ==
    {data_store}
    \cup {do_GET_merge(data_store, q, now).store : q \in IdsParams}
    \cup {do_POST(data_store, req, now).store :
              req \in {b \in PostBodies : b.json # "object" \/ NoMachineId(b.obj)}}

\* C20: ListAll is repeatable.  A second ListAll at the time of the first, with no
\* Ingest accepted in between, has the same outcome: the same sequence of reports
\* with the same hostname / old_hostname and model / old_model in every entry.
C20_ListRepeatable ==
    last.op = "list" =>
        \A store \in WithoutIngest :
            LET again == do_GET_all(store, now)
            IN  /\ again.status = last.status
                /\ again.body = last.body

\* a listing has shown a translated hostname and a translated GPU model
C20_Witness ==
    /\ last.op = "list" /\ last.status = 200
    /\ \E i \in 1..Len(last.body) :
          /\ "old_hostname" \in DOMAIN last.body[i]
          /\ \E g \in 1..Len(last.body[i].gpus) : "old_model" \in DOMAIN last.body[i].gpus[g]

====
